---- MODULE Spec2Model ----
(***************************************************************************)
(* Model of the YouTube transcript MCP server: the line-delimited JSON-RPC *)
(* read loop (simple_server.py: main), the dispatcher (handle_request,     *)
(* call_tool), the video-id extractor and the transcript formatter         *)
(* (youtube_transcript_mcp/utils.py).                                      *)
(*                                                                         *)
(* Representation.  A Python str that the code inspects character by       *)
(* character (the argument of extract_video_id) is a sequence of           *)
(* one-character strings.  Opaque strings (method names, JSON-RPC ids,     *)
(* messages, caption text) are TLA+ strings.  A JSON object is a record;   *)
(* a key that is absent is the value Absent, a JSON value of the wrong     *)
(* type (null, a list, a number where a mapping or a string is expected)   *)
(* is a record of kind "nonmapping" / "nonstring".  Times are held in      *)
(* integer milliseconds.                                                   *)
(***************************************************************************)
EXTENDS Integers, Sequences, FiniteSets, TLC

VARIABLES
    pc,             \* main: "readline", "process", "done" (loop left at EOF), "crashed"
    lineNo,         \* number of lines read from stdin so far
    line,           \* the line returned by the last sys.stdin.readline()
    request,        \* main's local `request`: Unbound until the first json.loads succeeds
    output,         \* the lines printed to stdout, in order
    providerCalls,  \* the calls made to YouTubeTranscriptApi.fetch, in order
    urlParts,       \* extractor run: the pieces the input string is built from
    toolResult,     \* extractor run: what call_tool("extract_video_id", ...) returned
    transcript,     \* formatter run: the fetched transcript
    format_type,    \* formatter run: the format selector
    formatted       \* formatter run: what format_transcript_output returned / raised

vars == <<pc, lineNo, line, request, output, providerCalls,
          urlParts, toolResult, transcript, format_type, formatted>>

serverVars  == <<pc, lineNo, line, request, output, providerCalls>>
extractVars == <<urlParts, toolResult>>
formatVars  == <<transcript, format_type, formatted>>

-----------------------------------------------------------------------------
(* Bounds of the model.                                                    *)

\* Number of stdin lines read before the stream is closed.
MaxLines == 2

\* Number of snippets in a fetched transcript.
MaxSnippets == 2

-----------------------------------------------------------------------------
(* Plain values.                                                           *)

Absent == "<absent>"        \* key not present in a JSON object
None == "None"              \* Python None / JSON null
Unbound == [kind |-> "unbound"]

Last(s) == s[Len(s)]

Min(S) == CHOOSE m \in S : \A n \in S : m <= n

Max(S) == CHOOSE m \in S : \A n \in S : m >= n

-----------------------------------------------------------------------------
(* utils.py: extract_video_id.  Strings are sequences of characters.       *)

NL == "\n"

LowerLetters == {"a", "b", "c", "d", "e", "f", "g", "h", "i", "j", "k", "l", "m",
                 "n", "o", "p", "q", "r", "s", "t", "u", "v", "w", "x", "y", "z"}

UpperLetters == {"A", "B", "C", "D", "E", "F", "G", "H", "I", "J", "K", "L", "M",
                 "N", "O", "P", "Q", "R", "S", "T", "U", "V", "W", "X", "Y", "Z"}

Digits == {"0", "1", "2", "3", "4", "5", "6", "7", "8", "9"}

\* The character class [a-zA-Z0-9_-].
IdChars == LowerLetters \cup UpperLetters \cup Digits \cup {"_", "-"}

\* The repeat count {11} of the id group.
IdLen == 11

\* s has the literal lit at position i.
LitAt(s, i, lit) ==
    /\ i >= 1
    /\ i + Len(lit) - 1 <= Len(s)
    /\ \A k \in 1..Len(lit) : s[i + k - 1] = lit[k]

\* [a-zA-Z0-9_-]{11} matches s at position i.
IdRunAt(s, i) ==
    /\ i >= 1
    /\ i + IdLen - 1 <= Len(s)
    /\ \A k \in 0..(IdLen - 1) : s[i + k] \in IdChars

\* re.match(r'^[a-zA-Z0-9_-]{11}$', s): '$' matches at the end of the string
\* and also just before a newline that ends the string.
BareIdMatch(s) ==
    /\ IdRunAt(s, 1)
    /\ \/ Len(s) = IdLen
       \/ Len(s) = IdLen + 1 /\ s[IdLen + 1] = NL

SchemeHttps == <<"h", "t", "t", "p", "s", ":", "/", "/">>
SchemeHttp == <<"h", "t", "t", "p", ":", "/", "/">>
Www == <<"w", "w", "w", ".">>
WatchV == <<"y", "o", "u", "t", "u", "b", "e", ".", "c", "o", "m", "/",
            "w", "a", "t", "c", "h", "?", "v", "=">>
YoutuBe == <<"y", "o", "u", "t", "u", ".", "b", "e", "/">>
Embed == <<"y", "o", "u", "t", "u", "b", "e", ".", "c", "o", "m", "/",
           "e", "m", "b", "e", "d", "/">>
WatchQ == <<"y", "o", "u", "t", "u", "b", "e", ".", "c", "o", "m", "/",
            "w", "a", "t", "c", "h", "?">>
VEq == <<"v", "=">>

\* The four patterns, in list order.  Each is
\*   (?:https?://)? [(?:www\.)?] lit [.* lit2] ([a-zA-Z0-9_-]{11})
patterns ==
    << [www |-> TRUE,  lit |-> WatchV,  dotstar |-> FALSE, lit2 |-> <<>>],
       [www |-> FALSE, lit |-> YoutuBe, dotstar |-> FALSE, lit2 |-> <<>>],
       [www |-> TRUE,  lit |-> Embed,   dotstar |-> FALSE, lit2 |-> <<>>],
       [www |-> TRUE,  lit |-> WatchQ,  dotstar |-> TRUE,  lit2 |-> VEq] >>

\* Length of the match of https?:// at position i (0: no match).
SchemeLenAt(s, i) ==
    IF LitAt(s, i, SchemeHttps) THEN Len(SchemeHttps)
    ELSE IF LitAt(s, i, SchemeHttp) THEN Len(SchemeHttp)
    ELSE 0

\* The part of a pattern after the optional groups, tried at position p:
\* the start of group 1, or 0 when it does not match there.  '.*' is greedy
\* and does not cross a newline, so the last admissible 'v=' wins.
TailAt(s, p, pat) ==
    IF ~LitAt(s, p, pat.lit) THEN 0
    ELSE LET q == p + Len(pat.lit) IN
         IF ~pat.dotstar
         THEN IF IdRunAt(s, q) THEN q ELSE 0
         ELSE LET ends == { j \in q..Len(s) :
                              /\ \A k \in q..(j - 1) : s[k] # NL
                              /\ LitAt(s, j, pat.lit2)
                              /\ IdRunAt(s, j + Len(pat.lit2)) }
              IN IF ends = {} THEN 0 ELSE Max(ends) + Len(pat.lit2)

\* The first non-zero entry of a sequence of positions, or 0.
FirstHit(f) ==
    LET hits == { p \in { <<n, f[n]>> : n \in DOMAIN f } : p[2] # 0 }
    IN IF hits = {} THEN 0
       ELSE (CHOOSE p \in hits : \A q \in hits : p[1] <= q[1])[2]

\* A pattern tried at start position i, with the optional groups greedy and
\* backtracking: the start of group 1, or 0.  The alternatives in the order
\* the engine tries them: scheme and www., scheme only, www. only, neither;
\* each gives the position where the rest of the pattern must match.
PatternAt(s, i, pat) ==
    LET a == SchemeLenAt(s, i)
        rest == << IF a > 0 /\ pat.www /\ LitAt(s, i + a, Www)
                   THEN i + a + Len(Www) ELSE 0,
                   IF a > 0 THEN i + a ELSE 0,
                   IF pat.www /\ LitAt(s, i, Www) THEN i + Len(Www) ELSE 0,
                   i >>
    IN FirstHit([n \in 1..4 |-> IF rest[n] = 0 THEN 0 ELSE TailAt(s, rest[n], pat)])

\* re.search(pattern, s): the leftmost start position that matches; the
\* start of group 1, or 0 when there is no match.  A match can only start
\* on the first character of the scheme, of www. or of the literal.
Search(s, pat) ==
    FirstHit([i \in 1..Len(s) |->
                IF s[i] = "h" \/ s[i] = "w" \/ s[i] = pat.lit[1]
                THEN PatternAt(s, i, pat) ELSE 0])

NotFound == [found |-> FALSE, id |-> <<>>]

Found(id) == [found |-> TRUE, id |-> id]

\* extract_video_id(url_or_id) for a str argument: the first pattern of the
\* list that re.search finds anywhere in the string decides.
extract_video_id(url_or_id) ==
    IF url_or_id = <<>> THEN NotFound
    ELSE IF BareIdMatch(url_or_id) THEN Found(url_or_id)
    ELSE LET g == FirstHit([n \in 1..Len(patterns) |-> Search(url_or_id, patterns[n])])
         IN IF g = 0 THEN NotFound
            ELSE Found(SubSeq(url_or_id, g, g + IdLen - 1))

-----------------------------------------------------------------------------
(* utils.py: format_transcript_output and the time conversions.            *)
(* A snippet is [text, start, duration] with start and duration in         *)
(* milliseconds.  The returned str is held as the sequence of the lines    *)
(* that "\n".join / json.dumps(indent=2) put between newlines.             *)

\* n in decimal, zero-padded to at least w digits (the format spec 0wd).
Pad(n, w) ==
    IF w >= 3 /\ n < 10 THEN "00" \o ToString(n)
    ELSE IF w >= 3 /\ n < 100 THEN "0" \o ToString(n)
    ELSE IF w = 2 /\ n < 10 THEN "0" \o ToString(n)
    ELSE ToString(n)

\* seconds_to_srt_time: HH:MM:SS,mmm, every component truncated.
seconds_to_srt_time(ms) ==
    LET hours == ms \div 3600000
        minutes == (ms % 3600000) \div 60000
        secs == (ms % 60000) \div 1000
        millisecs == ms % 1000
    IN Pad(hours, 2) \o ":" \o Pad(minutes, 2) \o ":" \o Pad(secs, 2)
       \o "," \o Pad(millisecs, 3)

\* seconds_to_vtt_time: HH:MM:SS.mmm, every component truncated.
seconds_to_vtt_time(ms) ==
    LET hours == ms \div 3600000
        minutes == (ms % 3600000) \div 60000
        secs == (ms % 60000) \div 1000
        millisecs == ms % 1000
    IN Pad(hours, 2) \o ":" \o Pad(minutes, 2) \o ":" \o Pad(secs, 2)
       \o "." \o Pad(millisecs, 3)

\* The format spec .2f on a value of ms milliseconds: two decimals, the
\* third rounded half to even.
Fixed2(ms) ==
    LET c == ms \div 10
        r == ms % 10
        cs == IF r > 5 \/ (r = 5 /\ c % 2 = 1) THEN c + 1 ELSE c
    IN ToString(cs \div 100) \o "." \o Pad(cs % 100, 2)

\* json.dumps of the float ms/1000: shortest decimal, at least one decimal.
FloatRepr(ms) ==
    LET f == ms % 1000
        frac == IF f % 100 = 0 THEN ToString(f \div 100)
                ELSE IF f % 10 = 0 THEN Pad(f \div 10, 2)
                ELSE Pad(f, 3)
    IN ToString(ms \div 1000) \o "." \o frac

Quoted(str) == "\"" \o str \o "\""

RECURSIVE TextLines(_)
TextLines(snippets) ==
    IF snippets = <<>> THEN <<>>
    ELSE <<"[" \o Fixed2(Head(snippets).start) \o "s] " \o Head(snippets).text>>
         \o TextLines(Tail(snippets))

\* The srt loop, enumerate(transcript, first): i is the number of the head.
RECURSIVE SrtLines(_, _)
SrtLines(snippets, i) ==
    IF snippets = <<>> THEN <<>>
    ELSE LET snippet == Head(snippets)
             start_time == seconds_to_srt_time(snippet.start)
             end_time == seconds_to_srt_time(snippet.start + snippet.duration)
         IN <<ToString(i), start_time \o " --> " \o end_time, snippet.text, "">>
            \o SrtLines(Tail(snippets), i + 1)

RECURSIVE VttLines(_)
VttLines(snippets) ==
    IF snippets = <<>> THEN <<>>
    ELSE LET snippet == Head(snippets)
             start_time == seconds_to_vtt_time(snippet.start)
             end_time == seconds_to_vtt_time(snippet.start + snippet.duration)
         IN <<start_time \o " --> " \o end_time, snippet.text, "">>
            \o VttLines(Tail(snippets))

\* The entries of data["transcript"] as json.dumps(indent=2) prints them.
RECURSIVE JsonEntries(_)
JsonEntries(snippets) ==
    IF snippets = <<>> THEN <<>>
    ELSE LET snippet == Head(snippets)
             close == IF Len(snippets) = 1 THEN "    }" ELSE "    },"
         IN << "    {",
               "      \"text\": " \o Quoted(snippet.text) \o ",",
               "      \"start\": " \o FloatRepr(snippet.start) \o ",",
               "      \"duration\": " \o FloatRepr(snippet.duration),
               close >>
            \o JsonEntries(Tail(snippets))

JsonLines(t) ==
    << "{",
       "  \"video_id\": " \o Quoted(t.video_id) \o ",",
       "  \"language\": " \o Quoted(t.language) \o ",",
       "  \"language_code\": " \o Quoted(t.language_code) \o ",",
       "  \"is_generated\": " \o (IF t.is_generated THEN "true" ELSE "false") \o "," >>
    \o (IF t.snippets = <<>>
        THEN << "  \"transcript\": []" >>
        ELSE << "  \"transcript\": [" >> \o JsonEntries(t.snippets) \o << "  ]" >>)
    \o << "}" >>

Returned(v) == [raised |-> FALSE, value |-> v]

Raised(msg) == [raised |-> TRUE, value |-> <<msg>>]

\* Variant: the srt loop numbers from 0 (enumerate without a start).
format_transcript_output_from_zero(t, fmt) ==
    IF fmt = "json" THEN Returned(JsonLines(t))
    ELSE IF fmt = "text" THEN Returned(TextLines(t.snippets))
    ELSE IF fmt = "srt" THEN Returned(SrtLines(t.snippets, 0))
    ELSE IF fmt = "vtt" THEN Returned(<<"WEBVTT", "">> \o VttLines(t.snippets))
    ELSE Raised("Unsupported format type: " \o fmt)

\* format_transcript_output(transcript, format_type)
format_transcript_output(t, fmt) ==
    IF fmt = "json" THEN Returned(JsonLines(t))
    ELSE IF fmt = "text" THEN Returned(TextLines(t.snippets))
    ELSE IF fmt = "srt" THEN Returned(SrtLines(t.snippets, 1))
    ELSE IF fmt = "vtt" THEN Returned(<<"WEBVTT", "">> \o VttLines(t.snippets))
    ELSE Raised("Unsupported format type: " \o fmt)

-----------------------------------------------------------------------------
(* transcript_tools.py: YouTubeTranscriptManager.get_transcript.  The      *)
(* caption provider (YouTubeTranscriptApi.fetch) is external: prov is what *)
(* it does when called, a transcript or a failure with a message.          *)

\* Variant: a provider failure is swallowed and an empty transcript returned.
get_transcript_swallowing(video_id, languages, prov) ==
    [raised |-> FALSE,
     transcript |-> IF prov.ok THEN [prov.transcript EXCEPT !.video_id = video_id]
                    ELSE [video_id |-> video_id, language |-> "", language_code |-> "",
                          is_generated |-> FALSE, snippets |-> <<>>]]

get_transcript(video_id, languages, prov) ==
    IF prov.ok
    THEN [raised |-> FALSE, transcript |-> [prov.transcript EXCEPT !.video_id = video_id]]
    ELSE [raised |-> TRUE,
          message |-> "Could not get transcript for video " \o video_id
                      \o ": " \o prov.message]

-----------------------------------------------------------------------------
(* simple_server.py: SimpleYouTubeTranscriptServer.                        *)

\* self.tools: the two descriptors (name and the schema's required keys).
tools ==
    << [name |-> "extract_video_id", required |-> <<"url_or_id">>],
       [name |-> "get_video_transcript", required |-> <<"video_id">>] >>

ToolResult(text, isError) ==
    [content |-> << [type |-> "text", text |-> text] >>, isError |-> isError]

\* The message of the AttributeError raised by .get on a non-mapping.
NoGetMessage == "object has no attribute 'get'"

\* The message of the TypeError raised by re.match on a non-string.
NotStringMessage == "expected string or bytes-like object"

\* arguments.get(key, default) for a key whose values are opaque strings.
GetOr(v, default) == IF v = Absent THEN default ELSE v

\* Variant: `video_id is None` in place of `not video_id`.
FalsyOnlyNone(v) == v = None

\* `not video_id`: the empty string and None are falsy.
Falsy(v) == v = "" \/ v = None

\* call_tool(name, arguments): the ToolResult returned, and the provider
\* calls made on the way.  arguments is what params.get("arguments", {})
\* gave: a mapping, or a JSON value that is not one.
call_tool(name, arguments, prov) ==
    IF name = "extract_video_id" THEN
        IF arguments.kind # "mapping"
        THEN [result |-> ToolResult(<<"Unexpected error: ", NoGetMessage>>, TRUE),
              calls |-> <<>>]
        ELSE LET u == arguments.url_or_id IN
             IF u.kind = "nonstring"
             THEN [result |-> ToolResult(<<"Unexpected error: ", NotStringMessage>>, TRUE),
                   calls |-> <<>>]
             ELSE LET url_or_id == IF u.kind = "str" THEN u.s ELSE <<>>
                      shown == IF u.kind = "null" THEN <<None>> ELSE url_or_id
                      video_id == IF u.kind = "null" THEN NotFound
                                  ELSE extract_video_id(url_or_id)
                  IN IF ~video_id.found
                     THEN [result |->
                              ToolResult(<<"Error: Could not extract valid video ID from '">>
                                         \o shown \o <<"'">>, TRUE),
                           calls |-> <<>>]
                     ELSE [result |-> ToolResult(<<"Video ID: ">> \o video_id.id, FALSE),
                           calls |-> <<>>]
    ELSE IF name = "get_video_transcript" THEN
        IF arguments.kind # "mapping"
        THEN [result |-> ToolResult(<<"Unexpected error: ", NoGetMessage>>, TRUE),
              calls |-> <<>>]
        ELSE LET video_id == GetOr(arguments.video_id, "")
                 languages == <<"en">>
                 fmt == GetOr(arguments.format, "text")
             IN IF Falsy(video_id)
                THEN [result |-> ToolResult(<<"Error: video_id is required">>, TRUE),
                      calls |-> <<>>]
                ELSE LET got == get_transcript(video_id, languages, prov)
                         call == [video_id |-> video_id, languages |-> languages,
                                  outcome |-> prov]
                     IN IF got.raised
                        THEN [result |-> ToolResult(<<"Error getting transcript: ",
                                                      got.message>>, TRUE),
                              calls |-> <<call>>]
                        ELSE LET formatted_output ==
                                     format_transcript_output(got.transcript, fmt)
                             IN IF formatted_output.raised
                                THEN [result |->
                                         ToolResult(<<"Error getting transcript: ">>
                                                    \o formatted_output.value, TRUE),
                                      calls |-> <<call>>]
                                ELSE [result |-> ToolResult(formatted_output.value, FALSE),
                                      calls |-> <<call>>]
    ELSE [result |-> ToolResult(<<"Unknown tool: ", GetOr(name, None)>>, TRUE),
          calls |-> <<>>]

MethodNotFound == -32601

InternalError == -32603

ResultResponse(id, result) == [jsonrpc |-> "2.0", id |-> id, result |-> result]

\* Variant: the error response does not echo the id.
ErrorResponseWithoutId(id, code, message) ==
    [jsonrpc |-> "2.0", id |-> None, error |-> [code |-> code, message |-> message]]

ErrorResponse(id, code, message) ==
    [jsonrpc |-> "2.0", id |-> id, error |-> [code |-> code, message |-> message]]

InitializeResult ==
    [protocolVersion |-> "2024-11-05",
     capabilities |-> [tools |-> <<>>],
     serverInfo |-> [name |-> "youtube-transcript-mcp", version |-> "1.0.0"]]

\* What a call of handle_request does: return a response, return None, or
\* raise; with the provider calls made before that.
Responds(response, calls) == [kind |-> "response", response |-> response, calls |-> calls]

ReturnsNone == [kind |-> "none", calls |-> <<>>]

Raises(message, calls) == [kind |-> "raise", message |-> message, calls |-> calls]

\* request["id"] raises KeyError('id') when the key is absent.
KeyErrorId == "'id'"

\* handle_request(request) for a request that is a JSON object.
handle_request(req, prov) ==
    IF req.method = "notifications/initialized" THEN ReturnsNone
    ELSE IF req.method = "initialize" THEN
        IF req.id = Absent THEN Raises(KeyErrorId, <<>>)
        ELSE Responds(ResultResponse(req.id, InitializeResult), <<>>)
    ELSE IF req.method = "tools/list" THEN
        IF req.id = Absent THEN Raises(KeyErrorId, <<>>)
        ELSE Responds(ResultResponse(req.id, [tools |-> tools]), <<>>)
    ELSE IF req.method = "tools/call" THEN
        IF req.params.kind = "nonmapping" THEN Raises(NoGetMessage, <<>>)
        ELSE LET tool_name == IF req.params.kind = "absent" THEN Absent
                              ELSE req.params.name
                 given == IF req.params.kind = "absent" THEN [kind |-> "absent"]
                          ELSE req.params.arguments
                 arguments == IF given.kind = "absent"
                              THEN [kind |-> "mapping",
                                    url_or_id |-> [kind |-> "absent", s |-> <<>>],
                                    video_id |-> Absent, format |-> Absent]
                              ELSE given
                 done == call_tool(tool_name, arguments, prov)
             IN IF req.id = Absent THEN Raises(KeyErrorId, done.calls)
                ELSE Responds(ResultResponse(req.id, done.result), done.calls)
    ELSE
        IF req.id = Absent THEN Raises(KeyErrorId, <<>>)
        ELSE Responds(ErrorResponse(req.id, MethodNotFound, "Method not found"), <<>>)

-----------------------------------------------------------------------------
(* The input lines and provider behaviours the model draws from.           *)

\* JSON-RPC ids carried by requests.
Ids == {"1"}

Methods == {"initialize", "notifications/initialized", "tools/list", "tools/call",
            "foo/bar"}

BareId == <<"d", "Q", "w", "4", "w", "9", "W", "g", "X", "c", "Q">>

NotAUrl == <<"n", "o", "t", " ", "a", " ", "u", "r", "l">>

\* url_or_id values sent to the server: absent, null, a number, strings.
UrlArgs ==
    { [kind |-> k, s |-> <<>>] : k \in {"absent", "null", "nonstring"} }
    \cup { [kind |-> "str", s |-> x] :
             x \in { BareId \o <<NL>>, NotAUrl, SchemeHttps \o YoutuBe \o BareId } }

NoUrl == [kind |-> "absent", s |-> <<>>]

ArgsAbsent ==
    [kind |-> "absent", url_or_id |-> NoUrl, video_id |-> Absent, format |-> Absent]

ArgsNonMapping ==
    [kind |-> "nonmapping", url_or_id |-> NoUrl, video_id |-> Absent, format |-> Absent]

ExtractArguments ==
    { ArgsNonMapping }
    \cup { [kind |-> "mapping", url_or_id |-> u, video_id |-> Absent, format |-> Absent] :
             u \in UrlArgs }

FormatArgs == {Absent, "json", "text", "srt", "vtt", "xml"}

TranscriptArguments ==
    { ArgsAbsent, ArgsNonMapping }
    \cup { [kind |-> "mapping", url_or_id |-> NoUrl, video_id |-> v, format |-> f] :
             v \in {Absent, "", None}, f \in {Absent, "srt"} }
    \cup { [kind |-> "mapping", url_or_id |-> NoUrl, video_id |-> "abc", format |-> f] :
             f \in FormatArgs }

NoParams == [kind |-> "absent", name |-> Absent, arguments |-> ArgsAbsent]

CallParams ==
    { NoParams, [kind |-> "nonmapping", name |-> Absent, arguments |-> ArgsAbsent] }
    \cup { [kind |-> "mapping", name |-> n, arguments |-> ArgsAbsent] :
             n \in {Absent, "no_such_tool"} }
    \cup { [kind |-> "mapping", name |-> "extract_video_id", arguments |-> a] :
             a \in ExtractArguments }
    \cup { [kind |-> "mapping", name |-> "get_video_transcript", arguments |-> a] :
             a \in TranscriptArguments }

\* The JSON objects a line can parse to.
Requests ==
    { [kind |-> "object", id |-> i, method |-> m, params |-> NoParams] :
        i \in Ids \cup {Absent}, m \in (Methods \ {"tools/call"}) \cup {Absent} }
    \cup { [kind |-> "object", id |-> i, method |-> "tools/call", params |-> p] :
             i \in Ids \cup {Absent}, p \in CallParams }

NonObject == [kind |-> "nonobject"]

\* A line of stdin: not JSON at all, JSON that is not an object, an object.
Lines ==
    { [json |-> "malformed"], [json |-> "nonobject"] }
    \cup { [json |-> "object", value |-> r] : r \in Requests }

NoLine == [json |-> "none"]

\* The times drawn are binary fractions of a second, on which the float
\* arithmetic of the code and millisecond arithmetic agree.
Snippets ==
    { [text |-> t, start |-> s, duration |-> d] :
        t \in {"hello", "world"}, s \in {0, 1500, 3661250}, d \in {0, 2000} }

\* Snippet sequences in chronological order, as the provider returns them.
SnippetSeqs ==
    UNION { { q \in [1..n -> Snippets] :
                \A k \in 1..(n - 1) : q[k].start <= q[k + 1].start } :
            n \in 0..MaxSnippets }

Transcripts ==
    { [video_id |-> "abc", language |-> "English", language_code |-> "en",
       is_generated |-> g, snippets |-> q] : g \in BOOLEAN, q \in SnippetSeqs }

\* What the provider does when the server calls it.
ProviderOutcomes ==
    { [ok |-> FALSE, message |-> "no captions"] }
    \cup { [ok |-> TRUE,
            transcript |-> [video_id |-> "abc", language |-> "English",
                            language_code |-> "en", is_generated |-> FALSE,
                            snippets |-> q]] :
             q \in { <<>>,
                     << [text |-> "hello", start |-> 0, duration |-> 1500],
                        [text |-> "world", start |-> 3661250, duration |-> 2000] >> } }

-----------------------------------------------------------------------------
(* simple_server.py: main, the read loop.                                  *)

JSONDecodeMessage == "Expecting value: line 1 column 1 (char 0)"

ServerIdle ==
    /\ pc = "off" /\ lineNo = 0 /\ line = NoLine
    /\ request = Unbound /\ output = <<>> /\ providerCalls = <<>>

ExtractIdle == urlParts = <<>> /\ toolResult = [done |-> FALSE]

FormatIdle == transcript = <<>> /\ format_type = "" /\ formatted = [done |-> FALSE]

Init ==
    /\ pc = "readline" /\ lineNo = 0 /\ line = NoLine
    /\ request = Unbound /\ output = <<>> /\ providerCalls = <<>>
    /\ ExtractIdle /\ FormatIdle

\* A loop that would read the next line without waiting for the line in hand
\* to be handled.
ReadLineWhileProcessing(l) ==
    /\ pc \in {"readline", "process"}
    /\ lineNo < MaxLines
    /\ line' = l
    /\ lineNo' = lineNo + 1
    /\ pc' = "process"
    /\ UNCHANGED <<request, output, providerCalls, extractVars, formatVars>>

\* line = await ...run_in_executor(None, sys.stdin.readline), a line came.
ReadLine(l) ==
    /\ pc = "readline"
    /\ lineNo < MaxLines
    /\ line' = l
    /\ lineNo' = lineNo + 1
    /\ pc' = "process"
    /\ UNCHANGED <<request, output, providerCalls, extractVars, formatVars>>

\* readline returned "": `if not line: break`.
EndOfStream ==
    /\ pc = "readline"
    /\ pc' = "done"
    /\ UNCHANGED <<lineNo, line, request, output, providerCalls, extractVars, formatVars>>

\* The except clause, entered with the local `request` holding req:
\* request.get("id") if 'request' in locals() else None, then print.  When
\* req is not a mapping, request.get raises inside the handler and the
\* exception leaves the loop.
ExceptClause(req, message) ==
    IF req # Unbound /\ req.kind # "object"
    THEN pc' = "crashed" /\ output' = output
    ELSE LET id == IF req = Unbound THEN None ELSE GetOr(req.id, None)
         IN /\ output' = Append(output, ErrorResponse(id, InternalError, message))
            /\ pc' = "readline"

\* json.loads(line.strip()) raises: `request` keeps its previous binding.
JsonDecodeError ==
    /\ pc = "process"
    /\ line.json = "malformed"
    /\ request' = request
    /\ ExceptClause(request, JSONDecodeMessage)
    /\ UNCHANGED <<lineNo, line, providerCalls, extractVars, formatVars>>

\* json.loads gives a list, a string, a number or null: request.get('method')
\* raises AttributeError.
NotAnObject ==
    /\ pc = "process"
    /\ line.json = "nonobject"
    /\ request' = NonObject
    /\ ExceptClause(NonObject, NoGetMessage)
    /\ UNCHANGED <<lineNo, line, providerCalls, extractVars, formatVars>>

\* The calls of one iteration, entered in the log with the number of the
\* line being processed.
Tagged(calls) == [k \in 1..Len(calls) |->
                    [line |-> lineNo, video_id |-> calls[k].video_id,
                     languages |-> calls[k].languages, outcome |-> calls[k].outcome]]

\* json.loads gives an object: the request is dispatched, and the response
\* is printed, or nothing is (None), or the except clause runs.
Dispatch(prov) ==
    /\ pc = "process"
    /\ line.json = "object"
    /\ request' = line.value
    /\ LET r == handle_request(line.value, prov) IN
         /\ providerCalls' = providerCalls \o Tagged(r.calls)
         /\ IF r.kind = "response"
            THEN output' = Append(output, r.response) /\ pc' = "readline"
            ELSE IF r.kind = "none"
            THEN output' = output /\ pc' = "readline"
            ELSE ExceptClause(line.value, r.message)
    /\ UNCHANGED <<lineNo, line, extractVars, formatVars>>

Next ==
    \/ \E l \in Lines : ReadLine(l)
    \/ EndOfStream
    \/ JsonDecodeError
    \/ NotAnObject
    \/ \E prov \in ProviderOutcomes : Dispatch(prov)

Spec == Init /\ [][Next]_vars

-----------------------------------------------------------------------------
(* The extractor on its own: the extract_video_id tool applied to one      *)
(* input string, built from a scheme, a www. prefix, a host with its path, *)
(* an id and a suffix.                                                     *)

Schemes ==
    { <<>>, SchemeHttps, SchemeHttp,
      <<"H", "T", "T", "P", "S", ":", "/", "/">>,
      <<"H", "t", "t", "p", ":", "/", "/">> }

Wwws == { <<>>, Www, <<"W", "W", "W", ".">> }

Hosts ==
    { <<>>, WatchV, YoutuBe, Embed,
      <<"Y", "O", "U", "T", "U", "B", "E", ".", "C", "O", "M", "/",
        "w", "a", "t", "c", "h", "?", "v", "=">>,
      <<"Y", "o", "u", "t", "u", ".", "B", "e", "/">>,
      <<"y", "o", "u", "t", "u", "b", "e", ".", "c", "o", "m", "/",
        "w", "a", "t", "c", "h", "?", "l", "i", "s", "t", "=", "P", "L", "&", "v", "=">>,
      <<"e", "x", "a", "m", "p", "l", "e", ".", "c", "o", "m", "/",
        "w", "a", "t", "c", "h", "?", "v", "=">> }

IdParts ==
    { <<>>, BareId,
      <<"a", "b", "c", "_", "D", "E", "F", "-", "1", "2", "3">>,
      <<"t", "o", "o", "S", "h", "o", "r", "t">> }

Suffixes == { <<>>, <<NL>>, <<" ">>, <<"&", "t", "=", "4", "2", "s">> }

UrlPartsSet ==
    { [scheme |-> a, www |-> b, host |-> c, id |-> d, suffix |-> e] :
        a \in Schemes, b \in Wwws, c \in Hosts, d \in IdParts, e \in Suffixes }

\* The input string the pieces spell.
Flatten(parts) == parts.scheme \o parts.www \o parts.host \o parts.id \o parts.suffix

StrArguments(str) ==
    [kind |-> "mapping", url_or_id |-> [kind |-> "str", s |-> str],
     video_id |-> Absent, format |-> Absent]

NoProvider == [ok |-> FALSE, message |-> ""]

InitExtract ==
    /\ ServerIdle /\ FormatIdle
    /\ urlParts \in UrlPartsSet
    /\ toolResult = [done |-> FALSE]

\* call_tool("extract_video_id", {"url_or_id": <the input>}).
ExtractTool ==
    /\ ~toolResult.done
    /\ toolResult' =
         [done |-> TRUE,
          video_id |-> extract_video_id(Flatten(urlParts)),
          result |-> call_tool("extract_video_id",
                               StrArguments(Flatten(urlParts)), NoProvider).result]
    /\ UNCHANGED <<urlParts, serverVars, formatVars>>

NextExtract == ExtractTool

SpecExtract == InitExtract /\ [][NextExtract]_vars

-----------------------------------------------------------------------------
(* The formatter on its own: format_transcript_output applied to one       *)
(* transcript and one format selector.                                     *)

Formats == {"json", "text", "srt", "vtt", "xml"}

InitFormat ==
    /\ ServerIdle /\ ExtractIdle
    /\ transcript \in Transcripts
    /\ format_type \in Formats
    /\ formatted = [done |-> FALSE]

FormatTranscript ==
    /\ ~formatted.done
    /\ formatted' = [done |-> TRUE,
                     out |-> format_transcript_output(transcript, format_type)]
    /\ UNCHANGED <<transcript, format_type, serverVars, extractVars>>

NextFormat == FormatTranscript

SpecFormat == InitFormat /\ [][NextFormat]_vars

-----------------------------------------------------------------------------
(* Vocabulary of the properties.                                           *)

KnownMethods == {"initialize", "notifications/initialized", "tools/list", "tools/call"}

\* The line being processed is a JSON object / one that carries an id.
IsRequest(l) == l.json = "object"

HasId(l) == IsRequest(l) /\ l.value.id # Absent

IsNotification(l) == IsRequest(l) /\ l.value.id = Absent

\* Processing the line raises somewhere between json.loads and print.
ProcessingFails(l) ==
    \/ l.json = "malformed"
    \/ l.json = "nonobject"
    \/ IsRequest(l) /\ handle_request(l.value, NoProvider).kind = "raise"

HasError(resp) == "error" \in DOMAIN resp

HasResult(resp) == "result" \in DOMAIN resp

IsInternalError(resp) ==
    HasError(resp) /\ ~HasResult(resp) /\ resp.error.code = -32603

\* A content sequence of text items plus a boolean isError.
IsToolResult(r) ==
    /\ DOMAIN r = {"content", "isError"}
    /\ r.isError \in BOOLEAN
    /\ \A k \in DOMAIN r.content : r.content[k].type = "text"

IsToolCall(l) == IsRequest(l) /\ l.value.method = "tools/call"

\* A tools/call naming get_video_transcript whose arguments, if given, are
\* an object.
IsTranscriptCall(l) ==
    /\ IsToolCall(l)
    /\ l.value.params.kind = "mapping"
    /\ l.value.params.name = "get_video_transcript"
    /\ l.value.params.arguments.kind \in {"absent", "mapping"}

VideoIdOf(l) == l.value.params.arguments.video_id

FormatOf(l) == GetOr(l.value.params.arguments.format, "text")

\* The id the line itself yields: its own "id" member, else null.
RecoverableId(l) == IF HasId(l) THEN l.value.id ELSE None

OneMoreResponse == Len(output') = Len(output) + 1

OneMoreCall == Len(providerCalls') = Len(providerCalls) + 1

-----------------------------------------------------------------------------
(* The read loop and the dispatcher (specification Spec).                  *)

\* C1: a request without an id never causes an output line: whatever its
\* method and whatever happens while it is handled, the output stream after
\* the line has been processed is the output stream before.
C1_NotificationLeavesOutputUnchanged ==
    [][ (pc = "process" /\ IsNotification(line)) => output' = output ]_vars

\* C2: a line whose processing fails (malformed JSON, JSON that is not an
\* object, a missing field) gets one error response with code -32603 and the
\* loop goes on to read the next line; no line makes the loop end before the
\* end of the stream.
C2_FailedLineAnsweredAndLoopContinues ==
    [][ pc = "process" =>
          /\ pc' = "readline"
          /\ ProcessingFails(line) =>
               (OneMoreResponse /\ IsInternalError(Last(output'))) ]_vars

\* C3: every tools/call that carries an id is answered by a response whose
\* result is a ToolResult and which has no error member, whatever its params,
\* tool name and arguments and whatever the provider and the formatter do.
C3_ToolCallAlwaysToolResult ==
    [][ (pc = "process" /\ IsToolCall(line) /\ HasId(line)) =>
          /\ pc' = "readline"
          /\ OneMoreResponse
          /\ ~HasError(Last(output'))
          /\ HasResult(Last(output'))
          /\ IsToolResult(Last(output').result) ]_vars

\* C4: every response emitted carries the id of the line that produced it,
\* or null when that line yields no id; it never depends on an earlier line.
C4_ResponseIdFromOwnLine ==
    [][ output' # output =>
          (OneMoreResponse /\ Last(output').id = RecoverableId(line)) ]_vars

\* C5: a request with an id whose method is none of initialize,
\* notifications/initialized, tools/list, tools/call gets exactly one
\* response: error code -32601, message "Method not found", no result, and
\* the id of the request.
C5_UnknownMethodNotFound ==
    [][ (pc = "process" /\ HasId(line) /\ line.value.method \notin KnownMethods) =>
          /\ pc' = "readline"
          /\ OneMoreResponse
          /\ SubSeq(output', 1, Len(output)) = output
          /\ Last(output') = [jsonrpc |-> "2.0", id |-> line.value.id,
                              error |-> [code |-> -32601,
                                         message |-> "Method not found"]] ]_vars

\* C5 witness: an unknown method with an id has just been answered.
C5_Witness ==
    /\ pc = "readline"
    /\ HasId(line)
    /\ line.value.method = "foo/bar"
    /\ output # <<>>
    /\ HasError(Last(output))
    /\ Last(output).error.code = -32601
    /\ Last(output).id = "1"

\* The transcript the manager hands to the formatter after a successful call.
FetchedBy(call) == [call.outcome.transcript EXCEPT !.video_id = call.video_id]

\* A get_video_transcript call with an id and a non-empty video_id.
IsFetchRequest(l) ==
    /\ HasId(l)
    /\ IsTranscriptCall(l)
    /\ l.value.params.arguments.kind = "mapping"
    /\ VideoIdOf(l) \notin {Absent, "", None}

SupportedFormats == {"json", "text", "srt", "vtt"}

\* C6, as stated: for a get_video_transcript call with a non-empty video_id
\* and any value of format, a successful provider call gives isError=false
\* with the formatted transcript as text, and the result is isError=true with
\* text "Error getting transcript: <message>" exactly when the provider call
\* failed.
C6_AnyFormatSucceedsWhenProviderDoes ==
    [][ (pc = "process" /\ IsFetchRequest(line)) =>
          LET call == Last(providerCalls')
              res == Last(output').result
              text == res.content[1].text
          IN /\ OneMoreResponse
             /\ OneMoreCall
             /\ call.outcome.ok =>
                  /\ ~res.isError
                  /\ text = format_transcript_output(FetchedBy(call), FormatOf(line)).value
             /\ (res.isError /\ Head(text) = "Error getting transcript: ")
                  <=> ~call.outcome.ok ]_vars

\* C6, amended: with format one of json, text, srt, vtt (absent: text), a
\* successful provider call gives isError=false with the formatted transcript
\* as text; the result is isError=true with text "Error getting transcript:
\* <message>" exactly when the provider call failed (the manager's message) or
\* the format is none of the four ("Unsupported format type: <format>").
C6_SupportedFormatSucceedsWhenProviderDoes ==
    [][ (pc = "process" /\ IsFetchRequest(line)) =>
          LET call == Last(providerCalls')
              res == Last(output').result
              fmt == FormatOf(line)
          IN /\ OneMoreResponse
             /\ OneMoreCall
             /\ HasResult(Last(output')) /\ ~HasError(Last(output'))
             /\ call.video_id = VideoIdOf(line)
             /\ (call.outcome.ok /\ fmt \in SupportedFormats) =>
                  res = [content |-> << [type |-> "text",
                                         text |-> format_transcript_output(
                                                      FetchedBy(call), fmt).value] >>,
                         isError |-> FALSE]
             /\ (call.outcome.ok /\ fmt \notin SupportedFormats) =>
                  res = [content |-> << [type |-> "text",
                                         text |-> << "Error getting transcript: ",
                                                     "Unsupported format type: " \o fmt >>] >>,
                         isError |-> TRUE]
             /\ ~call.outcome.ok =>
                  res = [content |-> << [type |-> "text",
                                         text |-> << "Error getting transcript: ",
                                                     "Could not get transcript for video "
                                                     \o VideoIdOf(line) \o ": "
                                                     \o call.outcome.message >>] >>,
                         isError |-> TRUE] ]_vars

\* C6 witness: the provider has returned a transcript for a request whose
\* format is none of the four, and the request has been answered with
\* isError=true.
C6_Witness ==
    /\ pc = "readline"
    /\ IsFetchRequest(line)
    /\ FormatOf(line) = "xml"
    /\ providerCalls # <<>>
    /\ Last(providerCalls).line = lineNo
    /\ Last(providerCalls).outcome.ok
    /\ Last(providerCalls).outcome.transcript.snippets # <<>>
    /\ output # <<>>
    /\ HasResult(Last(output))
    /\ Last(output).result.isError

\* A tools/call naming get_video_transcript, whatever its arguments member is.
NamesTranscriptTool(l) ==
    /\ IsToolCall(l)
    /\ l.value.params.kind = "mapping"
    /\ l.value.params.name = "get_video_transcript"

\* C7, as stated: every get_video_transcript call that has no video_id
\* argument or an empty one, including a call whose arguments member is not
\* an object, makes no provider call and, when it carries an id, is answered
\* with isError=true and text "Error: video_id is required".
C7_EveryCallWithoutVideoIdGetsRequiredMessage ==
    [][ (pc = "process" /\ NamesTranscriptTool(line)
                       /\ VideoIdOf(line) \in {Absent, ""}) =>
          /\ providerCalls' = providerCalls
          /\ HasId(line) =>
               output' = Append(output,
                   [jsonrpc |-> "2.0", id |-> line.value.id,
                    result |-> [content |-> << [type |-> "text",
                                                text |-> << "Error: video_id is required" >>] >>,
                                isError |-> TRUE]]) ]_vars

\* A get_video_transcript call whose arguments are an object (or left out)
\* and whose video_id argument is missing or empty.
LacksVideoId(l) == IsTranscriptCall(l) /\ VideoIdOf(l) \in {Absent, ""}

\* C7, amended: a get_video_transcript call whose arguments are an object
\* (or left out) and whose video_id is missing or empty makes
\* no provider call and, when it carries an id, is answered with isError=true
\* and text "Error: video_id is required"; over any sequence of requests the
\* provider is called only while a get_video_transcript call with a non-empty
\* video_id is processed, once, with that video_id.
C7_VideoIdRequiredAndProviderGuarded ==
    [][ /\ (pc = "process" /\ LacksVideoId(line)) =>
             /\ providerCalls' = providerCalls
             /\ HasId(line) =>
                  output' = Append(output,
                      [jsonrpc |-> "2.0", id |-> line.value.id,
                       result |-> [content |-> << [type |-> "text",
                                                   text |-> << "Error: video_id is required" >>] >>,
                                   isError |-> TRUE]])
        /\ providerCalls' # providerCalls =>
             /\ pc = "process"
             /\ IsTranscriptCall(line)
             /\ VideoIdOf(line) \notin {Absent, "", None}
             /\ OneMoreCall
             /\ SubSeq(providerCalls', 1, Len(providerCalls)) = providerCalls
             /\ Last(providerCalls').video_id = VideoIdOf(line)
             /\ Last(providerCalls').line = lineNo ]_vars

\* C7 witness: after a request that did call the provider, a request with an
\* empty video_id has been answered and the call log has not grown.
C7_Witness ==
    /\ pc = "readline"
    /\ lineNo = 2
    /\ HasId(line)
    /\ LacksVideoId(line)
    /\ VideoIdOf(line) = ""
    /\ Len(providerCalls) = 1
    /\ providerCalls[1].line = 1
    /\ Len(output) = 2
    /\ HasResult(Last(output))
    /\ Last(output).result.isError

-----------------------------------------------------------------------------
(* The extractor (specification SpecExtract).                              *)

\* Exactly 11 characters, all of [A-Za-z0-9_-].
IsVideoIdShape(id) == Len(id) = 11 /\ \A k \in 1..Len(id) : id[k] \in IdChars

ExtractText == toolResult.result.content[1].text

\* C8: whatever the input string, whitespace and newlines included,
\* extract_video_id returns None or a string of exactly 11 characters of
\* [A-Za-z0-9_-], and so does the id in every "Video ID: <id>" text of the
\* extract_video_id tool.
C8_ExtractedIdIsElevenIdChars ==
    toolResult.done =>
        /\ toolResult.video_id.found => IsVideoIdShape(toolResult.video_id.id)
        /\ Head(ExtractText) = "Video ID: " => IsVideoIdShape(Tail(ExtractText))

UpperSeq == <<"A", "B", "C", "D", "E", "F", "G", "H", "I", "J", "K", "L", "M",
              "N", "O", "P", "Q", "R", "S", "T", "U", "V", "W", "X", "Y", "Z">>

LowerSeq == <<"a", "b", "c", "d", "e", "f", "g", "h", "i", "j", "k", "l", "m",
              "n", "o", "p", "q", "r", "s", "t", "u", "v", "w", "x", "y", "z">>

LowerChar(c) ==
    IF c \in UpperLetters THEN LowerSeq[CHOOSE k \in 1..26 : UpperSeq[k] = c] ELSE c

Lowered(str) == [k \in 1..Len(str) |-> LowerChar(str[k])]

\* The host with its path, the host (what precedes the first "/") lowered.
HostLowered(str) ==
    LET slashes == { k \in 1..Len(str) : str[k] = "/" }
        hostEnd == IF slashes = {} THEN Len(str) ELSE Min(slashes)
    IN [k \in 1..Len(str) |-> IF k <= hostEnd THEN LowerChar(str[k]) ELSE str[k]]

\* The input with scheme, www. and host in lower case, the rest as it is.
SchemeHostLowered(parts) ==
    [parts EXCEPT !.scheme = Lowered(@), !.www = Lowered(@), !.host = HostLowered(@)]

\* str occurs in s, character for character.
OccursIn(str, s) == \E g \in 1..(Len(s) + 1) : LitAt(s, g, str)

\* C9: matching is case-insensitive on scheme and host and case-sensitive on
\* the id: an input gives the same result as the input with its scheme,
\* www. and host in lower case, and an id that is returned stands in the input
\* in exactly that case.
C9_SchemeHostCaseInsensitive ==
    toolResult.done =>
        /\ toolResult.video_id = extract_video_id(Flatten(SchemeHostLowered(urlParts)))
        /\ toolResult.video_id.found =>
             OccursIn(toolResult.video_id.id, Flatten(urlParts))

-----------------------------------------------------------------------------
(* The formatter (specification SpecFormat).                               *)

\* C10: for a transcript of n snippets (n >= 0) the srt output is exactly n
\* entries numbered 1, 2, ..., n in snippet order, and the vtt output is the
\* WEBVTT header followed by exactly n cues; entry i carries the times and the
\* text of snippet i.
C10_OneEntryPerSnippetInOrder ==
    (formatted.done /\ format_type \in {"srt", "vtt"}) =>
        LET n == Len(transcript.snippets)
            out == formatted.out.value
            snip(i) == transcript.snippets[i]
        IN /\ ~formatted.out.raised
           /\ format_type = "srt" =>
                /\ Len(out) = 4 * n
                /\ \A i \in 1..n :
                     /\ out[4 * i - 3] = ToString(i)
                     /\ out[4 * i - 2] = seconds_to_srt_time(snip(i).start) \o " --> "
                          \o seconds_to_srt_time(snip(i).start + snip(i).duration)
                     /\ out[4 * i - 1] = snip(i).text
                     /\ out[4 * i] = ""
           /\ format_type = "vtt" =>
                /\ Len(out) = 2 + 3 * n
                /\ out[1] = "WEBVTT"
                /\ out[2] = ""
                /\ \A i \in 1..n :
                     /\ out[3 * i] = seconds_to_vtt_time(snip(i).start) \o " --> "
                          \o seconds_to_vtt_time(snip(i).start + snip(i).duration)
                     /\ out[3 * i + 1] = snip(i).text
                     /\ out[3 * i + 2] = ""

\* C10 witness: a transcript of two different snippets has been rendered as
\* srt and its second entry is numbered 2.
C10_Witness ==
    /\ formatted.done
    /\ format_type = "srt"
    /\ Len(transcript.snippets) = 2
    /\ transcript.snippets[1] # transcript.snippets[2]
    /\ ~formatted.out.raised
    /\ formatted.out.value[5] = "2"

-----------------------------------------------------------------------------
(* Sequencing of the read loop (specification Spec).                       *)

\* C11: requests are handled strictly one at a time: a line is read only
\* when the line before it has been handled and its response, if any,
\* written; handling a line takes it from read to handled in one go, writes
\* at most one response, appended after the responses of the earlier lines,
\* and makes at most one provider call, logged under that line's number; so
\* there are never more responses or provider calls than lines read.
C11_OneLineAtATimeInOrder ==
    [][ /\ lineNo' # lineNo =>
             /\ pc = "readline" /\ pc' = "process"
             /\ lineNo' = lineNo + 1
             /\ output' = output
             /\ providerCalls' = providerCalls
        /\ pc = "process" => (pc' # "process" /\ lineNo' = lineNo /\ line' = line)
        /\ output' # output =>
             /\ pc = "process"
             /\ OneMoreResponse
             /\ SubSeq(output', 1, Len(output)) = output
        /\ providerCalls' # providerCalls =>
             /\ pc = "process"
             /\ OneMoreCall
             /\ SubSeq(providerCalls', 1, Len(providerCalls)) = providerCalls
             /\ Last(providerCalls').line = lineNo
        /\ Len(output') <= lineNo'
        /\ Len(providerCalls') <= lineNo'
        /\ \A j, k \in DOMAIN providerCalls' :
             j < k => providerCalls'[j].line < providerCalls'[k].line ]_vars

\* C11 witness: two lines have been read and handled, each made a provider
\* call and each was answered, the second response after the first.
C11_Witness ==
    /\ pc = "readline"
    /\ lineNo = 2
    /\ Len(output) = 2
    /\ output[1] # output[2]
    /\ Len(providerCalls) = 2
    /\ providerCalls[1].line = 1
    /\ providerCalls[2].line = 2

-----------------------------------------------------------------------------
(* Progress of the read loop (specification SpecLive).                     *)

\* One iteration's work after readline returned a line (json.loads,
\* handle_request, print, or the except clause), seen from the loop's
\* position: the steps JsonDecodeError, NotAnObject and Dispatch are the
\* steps of Next that start at "process", and each of them leaves it.
LineHandled == pc = "process" /\ pc' \in {"readline", "crashed"}

\* The loop with its scheduling: between readline and print the iteration
\* waits for nothing but the provider, which returns or raises, so a line
\* that has been read is handled.  Whether another line arrives is up to
\* the client.
SpecLive == Init /\ [][Next]_vars /\ WF_pc(LineHandled)

\* C12: every request object that carries an id, whatever its method
\* (notifications/initialized included), is eventually answered by exactly
\* one response line, and that response bears the request's id.
C12_EveryRequestWithIdAnswered ==
    \A k \in 1..MaxLines : \A n \in 0..MaxLines :
        (pc = "process" /\ lineNo = k /\ HasId(line) /\ Len(output) = n)
            ~> (/\ lineNo = k
                /\ HasId(line)
                /\ Len(output) = n + 1
                /\ output[n + 1].id = line.value.id)

====
